---- MODULE Spec2Model ----
(***************************************************************************)
(* Model of ITermExtractor/Morph.py: word and collocation identity, head   *)
(* word selection, candidate-list deduplication and normal-form            *)
(* resolution.                                                             *)
(*                                                                         *)
(* A Python str is a sequence of characters.  TLA+ strings are ASCII, so   *)
(* each Cyrillic character is written as a transliterated token:           *)
(*   "a" а  "b" б  "e" е  "zh" ж  "z" з  "i" и  "j" й  "l" л  "m" м        *)
(*   "o" о  "t" т  "q" ь  "ya" я  "yo" ё  "B" Б  "YO" Ё                    *)
(* and " " (space), "1" (digit) and "-" (hyphen) stand for themselves.     *)
(* A Python call returns Ok(value) or Raise(exception).  heap_list is the   *)
(* caller's list object handed to in_collocation_list_var and              *)
(* heap_collocations the caller's Collocation objects handed to            *)
(* get_collocation_normal_form: both calls write to them.                  *)
(***************************************************************************)
EXTENDS Integers, Sequences, FiniteSets, TLC

VARIABLES pc, fn, args, ret, heap_list, heap_collocations

vars == <<pc, fn, args, ret, heap_list, heap_collocations>>

(***************************************************************************)
(* Python values and str methods                                           *)
(***************************************************************************)
NoRet == [tag |-> "none"]
Ok(v) == [tag |-> "ok", val |-> v]
Raise(e) == [tag |-> "raise", exc |-> e]

\* Python's None and a value that is not None, where a name holds either
None == <<>>
Some(v) == <<v>>

\* None as an element of a list
NoneValue == [cls |-> "NoneType"]

\* Unicode code points: the order of str comparison and of list.sort()
CodePoint(c) ==
    CASE c = " " -> 32 [] c = "-" -> 45 [] c = "1" -> 49
      [] c = "YO" -> 1025 [] c = "B" -> 1041
      [] c = "a" -> 1072 [] c = "b" -> 1073 [] c = "e" -> 1077
      [] c = "zh" -> 1078 [] c = "z" -> 1079 [] c = "i" -> 1080
      [] c = "j" -> 1081 [] c = "l" -> 1083 [] c = "m" -> 1084
      [] c = "o" -> 1086 [] c = "t" -> 1090 [] c = "q" -> 1100
      [] c = "ya" -> 1103 [] c = "yo" -> 1105

LowerLetters == {"a", "b", "e", "zh", "z", "i", "j", "l", "m", "o", "t", "q", "ya", "yo"}
UpperLetters == {"B", "YO"}

\* str.isalpha() of one character
IsAlphaChar(c) == c \in LowerLetters \cup UpperLetters

\* str.lower() of one character
LowerChar(c) == CASE c = "B" -> "b" [] c = "YO" -> "yo" [] OTHER -> c

\* str.lower()
RECURSIVE lower(_)
lower(s) == IF s = <<>> THEN <<>> ELSE <<LowerChar(s[1])>> \o lower(Tail(s))

\* str.count(c) for a one-character argument
count(s, c) == Cardinality({i \in 1..Len(s) : s[i] = c})

\* str.isalpha(): non-empty and every character a letter
isalpha(s) == Len(s) > 0 /\ \A i \in 1..Len(s) : IsAlphaChar(s[i])

\* str.find(c) for a one-character argument, 0-based, -1 when absent
find(s, c) ==
    IF \E i \in 1..Len(s) : s[i] = c
    THEN (CHOOSE i \in 1..Len(s) : s[i] = c /\ \A k \in 1..(i - 1) : s[k] # c) - 1
    ELSE -1

\* str.find(sub), 0-based, -1 when absent
find_str(s, sub) ==
    IF \E k \in 0..(Len(s) - Len(sub)) : \A i \in 1..Len(sub) : s[k + i] = sub[i]
    THEN CHOOSE k \in 0..(Len(s) - Len(sub)) :
            /\ \A i \in 1..Len(sub) : s[k + i] = sub[i]
            /\ \A j \in 0..(k - 1) : \E i \in 1..Len(sub) : s[j + i] # sub[i]
    ELSE -1

\* str.strip(chars): the characters of chars are taken off both ends
RECURSIVE lstrip(_, _)
lstrip(s, chars) ==
    IF s # <<>> /\ (\E i \in 1..Len(chars) : chars[i] = s[1])
    THEN lstrip(Tail(s), chars)
    ELSE s

RECURSIVE rstrip(_, _)
rstrip(s, chars) ==
    IF s # <<>> /\ (\E i \in 1..Len(chars) : chars[i] = s[Len(s)])
    THEN rstrip(SubSeq(s, 1, Len(s) - 1), chars)
    ELSE s

strip(s, chars) == rstrip(lstrip(s, chars), chars)

\* str.replace(old, new) for one-character arguments
RECURSIVE replace(_, _, _)
replace(s, old, new) ==
    IF s = <<>> THEN <<>>
    ELSE <<IF s[1] = old THEN new ELSE s[1]>> \o replace(Tail(s), old, new)

\* str.split(): the maximal runs of non-space characters
RECURSIVE SplitFrom(_, _, _)
SplitFrom(s, i, cur) ==
    IF i > Len(s) THEN (IF cur = <<>> THEN <<>> ELSE <<cur>>)
    ELSE IF s[i] = " "
         THEN (IF cur = <<>> THEN <<>> ELSE <<cur>>) \o SplitFrom(s, i + 1, <<>>)
         ELSE SplitFrom(s, i + 1, Append(cur, s[i]))

split(s) == SplitFrom(s, 1, <<>>)

\* str.split(' '): the pieces between single spaces, empty pieces included
RECURSIVE SplitAtFrom(_, _, _)
SplitAtFrom(s, i, cur) ==
    IF i > Len(s) THEN <<cur>>
    ELSE IF s[i] = " " THEN <<cur>> \o SplitAtFrom(s, i + 1, <<>>)
    ELSE SplitAtFrom(s, i + 1, Append(cur, s[i]))

split_space(s) == SplitAtFrom(s, 1, <<>>)

\* ' '.join(words)
RECURSIVE join(_)
join(words) ==
    IF words = <<>> THEN <<>>
    ELSE IF Len(words) = 1 THEN words[1]
    ELSE words[1] \o <<" ">> \o join(Tail(words))

\* sub in s (substring containment of str)
Contains(s, sub) ==
    \E k \in 0..(Len(s) - Len(sub)) : \A i \in 1..Len(sub) : s[k + i] = sub[i]

\* s < t in Python's str order (lexicographic by code point)
RECURSIVE StrLess(_, _)
StrLess(s, t) ==
    IF t = <<>> THEN FALSE
    ELSE IF s = <<>> THEN TRUE
    ELSE IF s[1] # t[1] THEN CodePoint(s[1]) < CodePoint(t[1])
    ELSE StrLess(Tail(s), Tail(t))

(***************************************************************************)
(* The vocabulary of the model                                             *)
(***************************************************************************)
w_boj == <<"b", "o", "j">>
w_boya == <<"b", "o", "ya">>
w_Boj == <<"B", "o", "j">>
w_yozh == <<"yo", "zh">>
w_ezh == <<"e", "zh">>
w_ezha == <<"e", "zh", "a">>
w_zloj == <<"z", "l", "o", "j">>
w_bitq == <<"b", "i", "t", "q">>
w_tam == <<"t", "a", "m">>

\* PartOfSpeech and Case members used by Morph.py
PartsOfSpeech == {"noun", "adjective", "verb", "adverb"}
Cases == {"nominative", "genitive", "accusative", "none"}

TaggedWord(word, pos, case, normalized) ==
    [cls |-> "TaggedWord", word |-> word, pos |-> pos, case |-> case,
     normalized |-> normalized]

(***************************************************************************)
(* The tagger                                                              *)
(***************************************************************************)
\* helpers.is_correct_word: a non-empty word of letters, a hyphen allowed inside
is_correct_word(word) ==
    /\ Len(word) > 0
    /\ \A i \in 1..Len(word) :
          \/ IsAlphaChar(word[i])
          \/ (word[i] = "-" /\ 1 < i /\ i < Len(word))

\* __MorphAnalyzer__.parse(word) reduced to the base element's pos, case and
\* normal form.  The analyzer reads the word in lower case; a word outside
\* the vocabulary keeps the defaults of lines 409-411.
Lexicon(w) ==
    CASE w = w_boj -> [pos |-> "noun", case |-> "nominative", normal_form |-> w_boj]
      [] w = w_boya -> [pos |-> "noun", case |-> "genitive", normal_form |-> w_boj]
      [] w = w_yozh -> [pos |-> "noun", case |-> "nominative", normal_form |-> w_yozh]
      [] w = w_ezh -> [pos |-> "noun", case |-> "nominative", normal_form |-> w_yozh]
      [] w = w_ezha -> [pos |-> "noun", case |-> "genitive", normal_form |-> w_yozh]
      [] w = w_zloj -> [pos |-> "adjective", case |-> "nominative", normal_form |-> w_zloj]
      [] w = w_bitq -> [pos |-> "verb", case |-> "none", normal_form |-> w_bitq]
      [] w = w_tam -> [pos |-> "adverb", case |-> "none", normal_form |-> w_tam]
      [] OTHER -> [pos |-> "noun", case |-> "none", normal_form |-> w]

MorphParse(word) == Lexicon(lower(word))

\* lines 409-422: the TaggedWord of a word the analyzer was given
TaggedAs(word, parse_info) ==
    Ok(Some(TaggedWord(word, parse_info.pos, parse_info.case, parse_info.normal_form)))

\* lines 399-422
TagParsed(word) == TaggedAs(word, MorphParse(word))

\* line 386: the character is a letter or a hyphen
IsWordSymbol(c) == IsAlphaChar(c) \/ c = "-"

\* line 384: reg_word_symbols, the class [a-zA-Zа-яА-Я-]; the letter yo lies
\* outside the range а-я and its capital outside А-Я
IsRegWordSymbol(c) == (IsAlphaChar(c) /\ c \notin {"yo", "YO"}) \/ c = "-"

\* line 392: re.findall(reg_word_symbols, word), the maximal runs of
\* characters of the class
RECURSIVE FindAllFrom(_, _, _)
FindAllFrom(s, i, cur) ==
    IF i > Len(s) THEN (IF cur = <<>> THEN <<>> ELSE <<cur>>)
    ELSE IF ~IsRegWordSymbol(s[i])
         THEN (IF cur = <<>> THEN <<>> ELSE <<cur>>) \o FindAllFrom(s, i + 1, <<>>)
         ELSE FindAllFrom(s, i + 1, Append(cur, s[i]))

findall(word) == FindAllFrom(word, 1, <<>>)

\* lines 392-397: the word is replaced by its first run; parts[0] of no run
\* raises
RepairedWord(parts) ==
    IF Len(parts) = 0 THEN Raise("IndexError")
    ELSE IF Len(parts) # 1 THEN Ok(None)
    ELSE TagParsed(parts[1])

\* tag_word: Ok(None), Ok(Some(TaggedWord)) or the exception raised
tag_word(word) ==
    IF isalpha(word) \/ find(word, "-") > 0 THEN TagParsed(word)
    ELSE IF Len(word) = 0 THEN Ok(None)
    ELSE IF 10 * Cardinality({i \in 1..Len(word) : IsWordSymbol(word[i])}) >= 7 * Len(word)
    THEN RepairedWord(findall(word))
    ELSE Ok(None)

\* non_whitespace_separators, as far as the characters of the model go
non_whitespace_separators == <<"-">>

Separator(symbol) == [cls |-> "Separator", symbol |-> symbol]

IsSeparatorChar(c) ==
    \E i \in 1..Len(non_whitespace_separators) : non_whitespace_separators[i] = c

\* lines 436-437 with 442-443: the separators of the word whose first place
\* in the word is from lo to hi (counted from 0), in the order of their places
RECURSIVE SeparatorsIn(_, _, _)
SeparatorsIn(word, lo, hi) ==
    IF lo > hi THEN <<>>
    ELSE (IF IsSeparatorChar(word[lo + 1]) /\ find(word, word[lo + 1]) = lo
          THEN <<Separator(word[lo + 1])>> ELSE <<>>)
         \o SeparatorsIn(word, lo + 1, hi)

\* lines 445-450: a word that did not tag is dropped when it has separators
\* on both sides, and stands as None between them otherwise
PlacedBetween(preceding_separators, tagged_word, following_separators) ==
    IF Len(preceding_separators) # 0 /\ Len(following_separators) # 0
       /\ tagged_word = None
    THEN Ok(<<>>)
    ELSE Ok(preceding_separators
            \o <<IF tagged_word = None THEN NoneValue ELSE tagged_word[1]>>
            \o following_separators)

\* lines 440-450
TaggedWithSeparators(word, word_position, tagged_word) ==
    IF tagged_word.tag = "raise" THEN tagged_word
    ELSE PlacedBetween(SeparatorsIn(word, 0, word_position - 1), tagged_word.val,
                       SeparatorsIn(word, word_position + 1, Len(word) - 1))

\* lines 438-440
StrippedAndTagged(word, separatorless_word) ==
    TaggedWithSeparators(word, find_str(word, separatorless_word),
                         tag_word(separatorless_word))

\* lines 452-454: the word is appended unless it is None
TaggedPlain(tagged_word) ==
    IF tagged_word.tag = "raise" THEN tagged_word ELSE Ok(tagged_word.val)

\* lines 434-454: what one word of the collocation adds to tagged_words
TaggedToken(word) ==
    IF \E i \in 1..Len(word) : IsSeparatorChar(word[i])
    THEN StrippedAndTagged(word, strip(word, non_whitespace_separators))
    ELSE TaggedPlain(tag_word(word))

\* what follows what the words before have added
AppendedTo(added, rest) ==
    IF rest.tag = "raise" THEN rest ELSE Ok(added \o rest.val)

\* lines 433-454: the loop over the words; an exception ends it
RECURSIVE TagWords(_)
TagWordsAfter(first, words) ==
    IF first.tag = "raise" THEN first ELSE AppendedTo(first.val, TagWords(words))

TagWords(words) ==
    IF words = <<>> THEN Ok(<<>>)
    ELSE TagWordsAfter(TaggedToken(words[1]), Tail(words))

\* tag_collocation: Ok(list of TaggedWord, Separator and None) or the
\* exception raised
tag_collocation(collocation) == TagWords(split(collocation))

(***************************************************************************)
(* Word identity                                                           *)
(***************************************************************************)
\* a slip of line 96: only the first string is searched for a space
HasSpace_FirstOnly(word1, word2) == count(word1, " ") >= 1

\* line 96: one of the two strings holds a space
HasSpace(word1, word2) == count(word1, " ") >= 1 \/ count(word2, " ") >= 1

\* a slip of lines 108 and 110: a lemma is compared with a surface form
SameLemma_Surface(t1, t2) == t1.normalized = t2.word

\* lines 108 and 110: the lemmas of two tagged words agree
SameLemma(t1, t2) == t1.normalized = t2.normalized

\* lines 106-108: the first elements of the two tagged lists are compared;
\* [0] of an empty list and .normalized of a Separator or of None raise
FirstParsed(tagged1, tagged2) ==
    IF tagged1.tag = "raise" THEN tagged1
    ELSE IF tagged1.val = <<>> THEN Raise("IndexError")
    ELSE IF tagged2.tag = "raise" THEN tagged2
    ELSE IF tagged2.val = <<>> THEN Raise("IndexError")
    ELSE IF tagged1.val[1].cls # "TaggedWord" \/ tagged2.val[1].cls # "TaggedWord"
    THEN Raise("AttributeError")
    ELSE Ok(SameLemma(tagged1.val[1], tagged2.val[1]))

\* is_identical_word; is_strs and is_tagged_words are the isinstance results
\* of lines 89-90
is_identical_word(is_strs, is_tagged_words, word1, word2) ==
    IF ~(is_strs \/ is_tagged_words) THEN Raise("TypeError")
    ELSE IF is_strs
    THEN IF word1 = <<>> \/ word2 = <<>> THEN Ok(FALSE)
         ELSE IF HasSpace(word1, word2)
         THEN Raise("ValueError:phrases")
         ELSE IF ~(is_correct_word(word1) /\ is_correct_word(word2))
         THEN Raise("ValueError:letters")
         ELSE LET w1 == lower(word1)
                  w2 == lower(word2)
              IN IF w1 = w2 THEN Ok(TRUE)
                 ELSE FirstParsed(tag_collocation(w1), tag_collocation(w2))
    ELSE IF word1 = word2 THEN Ok(TRUE)
         ELSE Ok(SameLemma(word1, word2))

(***************************************************************************)
(* Head word                                                               *)
(***************************************************************************)
\* the least element of a non-empty set of indices
MinIdx(S) == CHOOSE i \in S : \A k \in S : i <= k

\* a slip of line 137: a phrase with a noun is let through
VerbAndAdverb_NoNoun(pos) == "verb" \in pos /\ "adverb" \in pos /\ "noun" \notin pos

\* line 137: the phrase holds a verb and an adverb
VerbAndAdverb(pos) == "verb" \in pos /\ "adverb" \in pos

\* a slip of line 152: the accusative is forgotten
IsNomOrAcc_NomOnly(w) == w.case = "nominative"

\* line 152: the word is in the nominative or the accusative
IsNomOrAcc(w) == w.case = "nominative" \/ w.case = "accusative"

\* get_main_word
get_main_word(collocation) ==
    IF Len(collocation) = 0
       \/ ~(\A i \in 1..Len(collocation) : collocation[i].cls = "TaggedWord")
    THEN Ok(<<>>)
    ELSE LET n == Len(collocation)
             pos == {collocation[i].pos : i \in 1..n}
             nounIdx == {i \in 1..n : collocation[i].pos = "noun"}
             caseIdx == {i \in 1..n : IsNomOrAcc(collocation[i])}
         IN IF VerbAndAdverb(pos)
            THEN Raise("ValueError:verb_adverb")
            ELSE IF n = 1 /\ "noun" \in pos THEN Ok(collocation[1].word)
            ELSE IF Cardinality(nounIdx) = 1
                 THEN Ok(collocation[MinIdx(nounIdx)].word)
                 ELSE LET result == IF caseIdx # {}
                                    THEN collocation[MinIdx(caseIdx)].word
                                    ELSE <<>>
                      IN IF result = <<>>
                         THEN IF nounIdx # {}
                              THEN Ok(collocation[MinIdx(nounIdx)].word)
                              ELSE Ok(<<>>)
                         ELSE Ok(result)

(***************************************************************************)
(* Collocation identity                                                    *)
(***************************************************************************)
\* lines 224-230: the surface forms are compared index by index with
\* is_identical_word, up to the first pair that is not identical
RECURSIVE PositionalWords(_, _, _)
PositionalWords(tagged1, tagged2, i) ==
    IF i > Len(tagged1) THEN Ok(TRUE)
    ELSE IF tagged1[i].cls # "TaggedWord" THEN Raise("AttributeError")
    ELSE IF i > Len(tagged2) THEN Raise("IndexError")
    ELSE IF tagged2[i].cls # "TaggedWord" THEN Raise("AttributeError")
    ELSE LET r == is_identical_word(TRUE, FALSE, tagged1[i].word, tagged2[i].word)
         IN IF r = Ok(TRUE) THEN PositionalWords(tagged1, tagged2, i + 1) ELSE r

\* a slip of lines 213 and 250: a shorter first phrase is let through
SameWordCount_AtLeast(words1, words2) == Len(words1) <= Len(words2)

\* lines 213 and 250: the two phrases have as many tokens
SameWordCount(words1, words2) == Len(words1) = Len(words2)

\* lines 222-230: the words are compared when the heads are identical
WordsIfHeads(heads, collocation1_tagged, collocation2_tagged) ==
    IF heads.tag = "raise" THEN heads
    ELSE IF ~heads.val THEN Ok(FALSE)
    ELSE PositionalWords(collocation1_tagged, collocation2_tagged, 1)

\* lines 219-230
HeadsAndWords(collocation1_tagged, collocation2_tagged, main_word_1, main_word_2) ==
    IF main_word_1.tag = "raise" THEN main_word_1
    ELSE IF main_word_2.tag = "raise" THEN main_word_2
    ELSE WordsIfHeads(is_identical_word(TRUE, FALSE, main_word_1.val, main_word_2.val),
                      collocation1_tagged, collocation2_tagged)

\* lines 217-230: both phrases are tagged, then their heads are found
TaggedIdentical(collocation1_tagged, collocation2_tagged) ==
    IF collocation1_tagged.tag = "raise" THEN collocation1_tagged
    ELSE IF collocation2_tagged.tag = "raise" THEN collocation2_tagged
    ELSE HeadsAndWords(collocation1_tagged.val, collocation2_tagged.val,
                       get_main_word(collocation1_tagged.val),
                       get_main_word(collocation2_tagged.val))

\* is_identical_collocation
is_identical_collocation(collocation1, collocation2) ==
    LET words_coll1 == split(collocation1)
        words_coll2 == split(collocation2)
        all_words == words_coll1 \o words_coll2
    IN IF Len(words_coll1) <= 1 \/ Len(words_coll2) <= 1
       THEN Raise("ValueError:collocations")
       ELSE IF \E i \in 1..Len(all_words) : ~is_correct_word(all_words[i])
       THEN Raise("ValueError:letters")
       ELSE IF collocation1 = collocation2 THEN Ok(TRUE)
       ELSE IF ~SameWordCount(words_coll1, words_coll2) THEN Ok(FALSE)
       ELSE TaggedIdentical(tag_collocation(collocation1),
                            tag_collocation(collocation2))

\* a slip of lines 265-271: the lemmas are compared as a bag of words
PositionalLemmas_Bag(collocation1, collocation2) ==
    {collocation1[i].normalized : i \in 1..Len(collocation1)}
        = {collocation2[i].normalized : i \in 1..Len(collocation2)}

\* lines 265-271: the lemmas are compared index by index
PositionalLemmas(collocation1, collocation2) ==
    \A i \in 1..Len(collocation1) :
        collocation1[i].normalized = collocation2[i].normalized

\* is_identical_collocation_q
is_identical_collocation_q(collocation1, collocation2) ==
    IF Len(collocation1) < 1 \/ Len(collocation2) < 1
    THEN Raise("ValueError:collocations")
    ELSE IF collocation1 = collocation2 THEN Ok(TRUE)
    ELSE IF ~SameWordCount(collocation1, collocation2) THEN Ok(FALSE)
    ELSE LET main_word_1 == get_main_word(collocation1)
             main_word_2 == get_main_word(collocation2)
         IN IF main_word_1.tag = "raise" THEN main_word_1
            ELSE IF main_word_2.tag = "raise" THEN main_word_2
            ELSE LET heads == is_identical_word(TRUE, FALSE, main_word_1.val,
                                                main_word_2.val)
                     comparison_result ==
                         IF heads.tag = "raise" /\ heads.exc \in {"ValueError:phrases",
                                                                  "ValueError:letters"}
                         THEN Ok(FALSE)
                         ELSE heads
                 IN IF comparison_result.tag = "raise" THEN comparison_result
                    ELSE IF ~comparison_result.val THEN Ok(FALSE)
                    ELSE Ok(PositionalLemmas(collocation1, collocation2))

(***************************************************************************)
(* Dedup engine                                                            *)
(***************************************************************************)
\* the number of nested calls above which the interpreter raises
\* RecursionError at the self-calls of lines 293-294: the interpreter's
\* default, sys.getrecursionlimit() = 1000
RecursionLimit == 1000

\* binary_identity_check at call depth `depth`; a pair is <<index, bool>>.
\* On the empty list middle_index is 0 and first_half is the empty list
\* again, so line 293 repeats the same call one frame deeper, frame after
\* frame, until the interpreter raises; that chain of identical calls is
\* given by its outcome.
RECURSIVE binary_identity_check_at(_, _, _)
binary_identity_check_at(collocation, collocation_list, depth) ==
    IF depth > RecursionLimit THEN Raise("RecursionError")
    ELSE IF Len(collocation_list) = 1
    THEN LET tmp == collocation_list[1]
             r == is_identical_collocation_q(collocation, tmp[2])
         IN IF r.tag = "raise" THEN r ELSE Ok(<< <<tmp[1], r.val>> >>)
    ELSE IF Len(collocation_list) = 0 THEN Raise("RecursionError")
    ELSE LET middle_index == Len(collocation_list) \div 2
             first_half == SubSeq(collocation_list, 1, middle_index)
             second_half == SubSeq(collocation_list, middle_index + 1,
                                   Len(collocation_list))
             first_result == binary_identity_check_at(collocation, first_half, depth + 1)
         IN IF first_result.tag = "raise" THEN first_result
            ELSE LET second_result ==
                         binary_identity_check_at(collocation, second_half, depth + 1)
                 IN IF second_result.tag = "raise" THEN second_result
                    ELSE Ok(first_result.val \o second_result.val)

\* the deepest nesting of calls of binary_identity_check on a list of n
\* candidates, the call at hand being at depth `depth`: lines 286-293 halve
\* the list until one candidate is left; the empty list is halved into
\* empty lists, one frame deeper each time, up to the frame the interpreter
\* refuses
RECURSIVE call_depth(_, _)
call_depth(n, depth) ==
    IF depth > RecursionLimit THEN depth
    ELSE IF n = 1 THEN depth
    ELSE IF n = 0 THEN RecursionLimit + 1
    ELSE LET middle_index == n \div 2
             first_depth == call_depth(middle_index, depth + 1)
             second_depth == call_depth(n - middle_index, depth + 1)
         IN IF first_depth > RecursionLimit THEN first_depth
            ELSE IF first_depth >= second_depth THEN first_depth
            ELSE second_depth

\* binary_identity_check
binary_identity_check(collocation, collocation_list) ==
    binary_identity_check_at(collocation, collocation_list, 1)

\* enumerate(collocation_list): pairs <<index, element>>, indices from 0
enumerate(lst) == [i \in 1..Len(lst) |-> <<i - 1, lst[i]>>]

\* lines 372: the pairs of identity_check whose boolean is true, each with
\* the candidate at its index
FoundMatches(identity_check, collocation_list) ==
    LET found == SelectSeq(identity_check, LAMBDA id_tuple : id_tuple[2])
    IN [i \in 1..Len(found) |->
            <<found[i][1], collocation_list[found[i][1] + 1]>>]

\* count_includes
count_includes(collocation, collocation_list) ==
    LET identity_check == binary_identity_check(collocation, enumerate(collocation_list))
    IN IF identity_check.tag = "raise" THEN identity_check
       ELSE Ok(FoundMatches(identity_check.val, collocation_list))

\* list.sort() of a list of str: insertion into the sorted prefix
RECURSIVE InsertSorted(_, _)
InsertSorted(sorted, x) ==
    IF sorted = <<>> THEN <<x>>
    ELSE IF StrLess(x, sorted[1]) THEN <<x>> \o sorted
    ELSE <<sorted[1]>> \o InsertSorted(Tail(sorted), x)

\* a slip of line 342: the list is left as it is
sort_Skipped(lst) == lst

RECURSIVE sort(_)
sort(lst) ==
    IF lst = <<>> THEN <<>>
    ELSE InsertSorted(sort(SubSeq(lst, 1, Len(lst) - 1)), lst[Len(lst)])

\* line 344: is_identical_collocation of the query with every candidate in
\* turn; the first exception ends the scan
RECURSIVE IdentityChecks(_, _)
IdentityChecks(collocation, lst) ==
    IF lst = <<>> THEN Ok(<<>>)
    ELSE LET r == is_identical_collocation(collocation, lst[1])
         IN IF r.tag = "raise" THEN r
            ELSE LET rest == IdentityChecks(collocation, Tail(lst))
                 IN IF rest.tag = "raise" THEN rest ELSE Ok(<<r.val>> \o rest.val)

\* in_collocation_list_var: the result and the candidate list after the call
in_collocation_list_var(collocation, lst) ==
    LET words_coll == split(collocation)
    IN IF Len(lst) = 0
       THEN [ret |-> Ok([flag |-> FALSE, match |-> None]), list |-> lst]
       ELSE IF \/ \E i \in 1..Len(words_coll) : ~is_correct_word(words_coll[i])
               \/ \E k \in 1..Len(lst) :
                     \E i \in 1..Len(split(lst[k])) : ~is_correct_word(split(lst[k])[i])
       THEN [ret |-> Raise("ValueError:letters"), list |-> lst]
       ELSE LET flag == \E k \in 1..Len(lst) : lst[k] = collocation
                sorted == sort(lst)
            IN IF flag
               THEN [ret |-> Ok([flag |-> TRUE, match |-> None]), list |-> sorted]
               ELSE LET identity_check == IdentityChecks(collocation, sorted)
                    IN IF identity_check.tag = "raise"
                       THEN [ret |-> identity_check, list |-> sorted]
                       ELSE LET hits == {k \in 1..Len(sorted) : identity_check.val[k]}
                            IN IF hits # {}
                               THEN [ret |-> Ok([flag |-> TRUE,
                                                 match |-> Some(sorted[MinIdx(hits)])]),
                                     list |-> sorted]
                               ELSE [ret |-> Ok([flag |-> FALSE, match |-> None]),
                                     list |-> sorted]

(***************************************************************************)
(* Normal-form resolver                                                    *)
(***************************************************************************)
\* DIST_THRESHOLD = 0.15; a distance is the fraction <<numerator, denominator>>
DIST_THRESHOLD == <<15, 100>>

Min2(a, b) == IF a <= b THEN a ELSE b
Max2(a, b) == IF a >= b THEN a ELSE b

\* one cell of the edit-distance table of pyxdameraulevenshtein: row x of
\* seq1 against column y of seq2, from the rows one and two steps before and
\* the cell to the left
DLCell(seq1, seq2, x, y, oneago, twoago, left) ==
    LET delcost == oneago[y + 1] + 1
        addcost == left + 1
        subcost == oneago[y] + (IF seq1[x] # seq2[y] THEN 1 ELSE 0)
        best == Min2(delcost, Min2(addcost, subcost))
        swapped == /\ x > 1 /\ y > 1
                   /\ seq1[x] = seq2[y - 1]
                   /\ seq1[x - 1] = seq2[y]
                   /\ seq1[x] # seq2[y]
    IN IF swapped THEN Min2(best, twoago[y - 1] + 1) ELSE best

\* row x of the table; acc holds its columns 0..y-1
RECURSIVE DLRow(_, _, _, _, _, _, _)
DLRow(seq1, seq2, x, y, oneago, twoago, acc) ==
    IF y > Len(seq2) THEN acc
    ELSE LET cell == DLCell(seq1, seq2, x, y, oneago, twoago, acc[y])
         IN IF cell >= 0
            THEN DLRow(seq1, seq2, x, y + 1, oneago, twoago, acc \o <<cell>>)
            ELSE acc

\* the rows x..Len(seq1) of the table; the answer is the last cell of the last
RECURSIVE DLRows(_, _, _, _, _)
DLRows(seq1, seq2, x, oneago, twoago) ==
    IF x > Len(seq1) THEN oneago[Len(seq2) + 1]
    ELSE LET thisrow == DLRow(seq1, seq2, x, 1, oneago, twoago, <<x>>)
         IN IF Len(thisrow) > 0
            THEN DLRows(seq1, seq2, x + 1, thisrow, oneago)
            ELSE 0

\* damerau_levenshtein_distance(seq1, seq2)
damerau_levenshtein_distance(seq1, seq2) ==
    LET row0 == [j \in 1..(Len(seq2) + 1) |-> j - 1]
    IN DLRows(seq1, seq2, 1, row0, row0)

\* normalized_damerau_levenshtein_distance(seq1, seq2): the distance over the
\* length of the longer string
normalized_damerau_levenshtein_distance(seq1, seq2) ==
    <<damerau_levenshtein_distance(seq1, seq2), Max2(1, Max2(Len(seq1), Len(seq2)))>>

\* a < b and a = b of two fractions
FracLess(a, b) == a[1] * b[2] < b[1] * a[2]
FracEq(a, b) == a[1] * b[2] = b[1] * a[2]

\* min(distances) of a non-empty array
MinDistance(distances) ==
    distances[CHOOSE i \in 1..Len(distances) :
                 \A k \in 1..Len(distances) : ~FracLess(distances[k], distances[i])]

\* line 537: e - min(distances) <= DIST_THRESHOLD, on floats.  Two distances
\* of short strings whose difference is not 0.15 differ from 0.15 by far more
\* than the rounding of floats, and compare as the fractions do.  On a
\* difference of exactly 0.15 the float of e - min lies above or below the
\* float 0.15 by the width of the floats the distance library and the array
\* comparison use: at_threshold is what the comparison gives there.
WithinThreshold(e, m, at_threshold) ==
    IF DIST_THRESHOLD[2] * (e[1] * m[2] - m[1] * e[2]) = DIST_THRESHOLD[1] * e[2] * m[2]
    THEN at_threshold
    ELSE DIST_THRESHOLD[2] * (e[1] * m[2] - m[1] * e[2]) < DIST_THRESHOLD[1] * e[2] * m[2]

\* lines 536-537: the pairs <<index, distance>> of the candidates that pass
RECURSIVE SelectIndices(_, _, _, _, _)
SelectIndices(distances, collocations, main_word, i, at_threshold) ==
    IF i > Len(distances) THEN <<>>
    ELSE LET rest == SelectIndices(distances, collocations, main_word, i + 1,
                                   at_threshold)
         IN IF /\ WithinThreshold(distances[i], MinDistance(distances), at_threshold)
               /\ Contains(collocations[i].collocation, main_word)
            THEN << <<i - 1, distances[i]>> >> \o rest
            ELSE rest

\* sorted(indices, key=itemgetter(1)): a stable sort on the distance
RECURSIVE InsertByDistance(_, _)
InsertByDistance(sorted, x) ==
    IF sorted = <<>> THEN <<x>>
    ELSE IF FracLess(x[2], sorted[1][2]) THEN <<x>> \o sorted
    ELSE <<sorted[1]>> \o InsertByDistance(Tail(sorted), x)

RECURSIVE SortedByDistance(_)
SortedByDistance(indices) ==
    IF indices = <<>> THEN <<>>
    ELSE InsertByDistance(SortedByDistance(SubSeq(indices, 1, Len(indices) - 1)),
                          indices[Len(indices)])

\* a slip of lines 538-539: the candidates that pass are left in list order
OrderIndices_Unsorted(indices) == indices

\* lines 538-539: more than one candidate that passes is sorted by distance
OrderIndices(indices) ==
    IF Len(indices) > 1 THEN SortedByDistance(indices) ELSE indices

\* line 529: the test that starts the rewriting of the letter yo
NeedsYoRewrite(pnormal_form, main_word) == Contains(lower(pnormal_form), <<"yo">>)

\* get_collocation_normal_form: the result and the Collocation objects after
\* the call; at_threshold is the outcome of the float comparison of line 537
\* on a difference of exactly 0.15
get_collocation_normal_form(pnormal_form, collocations, main_word, at_threshold) ==
    LET rewrite == NeedsYoRewrite(pnormal_form, main_word)
        main_word_1 == IF rewrite THEN replace(main_word, "yo", "e") ELSE main_word
        pnormal_form_1 == IF rewrite THEN replace(pnormal_form, "yo", "e")
                          ELSE pnormal_form
        collocations_1 ==
            IF rewrite
            THEN [i \in 1..Len(collocations) |->
                    [collocations[i] EXCEPT !.collocation = replace(@, "yo", "e")]]
            ELSE collocations
        distances == [i \in 1..Len(collocations_1) |->
                        normalized_damerau_levenshtein_distance(
                            pnormal_form_1, collocations_1[i].collocation)]
        indices == OrderIndices(SelectIndices(distances, collocations_1, main_word_1, 1,
                                              at_threshold))
    IN [ret |-> Ok(IF Len(indices) > 0 THEN indices[1][1] ELSE -1),
        collocations |-> collocations_1]

(***************************************************************************)
(* Longer-term extraction                                                  *)
(***************************************************************************)
\* a slip of line 601: the count of words starts at that of the whole phrase
FirstWcount_Whole(words) == Len(words)

\* line 601: the first value of range(len(words) - 1, 1, -1)
FirstWcount(words) == Len(words) - 1

\* line 602-603: the sub-phrases of wcount words from start j (counted from
\* 0) on, in the order of range(0, len(words) - wcount + 1)
RECURSIVE SubstrsFrom(_, _, _)
SubstrsFrom(words, wcount, j) ==
    IF j >= Len(words) - wcount + 1 THEN <<>>
    ELSE <<join(SubSeq(words, j + 1, j + wcount))>> \o SubstrsFrom(words, wcount, j + 1)

\* lines 601-603: the sub-phrases of wcount words, then those of fewer, down
\* to two words
RECURSIVE SubstrsDownFrom(_, _)
SubstrsDownFrom(words, wcount) ==
    IF wcount <= 1 THEN <<>>
    ELSE SubstrsFrom(words, wcount, 0) \o SubstrsDownFrom(words, wcount - 1)

\* make_substrs; the empty str of line 597 and the empty list are both <<>>
make_substrs(collocation) ==
    IF collocation = <<>> THEN Ok(<<>>)
    ELSE LET words == split(collocation)
         IN Ok(SubstrsDownFrom(words, FirstWcount(words)))

\* a Collocation: its text and its count of words
Collocation(collocation, wordcount) ==
    [cls |-> "Collocation", collocation |-> collocation, wordcount |-> wordcount]

\* line 659: the words of the dictionary, in its order, that are among
\* raw_words
RECURSIVE TagsAmong(_, _)
TagsAmong(dictionary, raw_words) ==
    IF dictionary = <<>> THEN <<>>
    ELSE (IF \E i \in 1..Len(raw_words) : raw_words[i] = dictionary[1].word
          THEN <<dictionary[1]>> ELSE <<>>)
         \o TagsAmong(Tail(dictionary), raw_words)

\* assign_tags; is_str is the isinstance result of line 653, the phrase is a
\* str or a Collocation
assign_tags(is_str, phrase, dictionary) ==
    LET raw_words == IF is_str THEN split_space(phrase)
                     ELSE split_space(phrase.collocation)
    IN TagsAmong(dictionary, raw_words)

\* line 624: the sub-phrases of as many words as the line
RECURSIVE PossibleIdenticLines(_, _)
PossibleIdenticLines(substrs, wordcount) ==
    IF substrs = <<>> THEN <<>>
    ELSE (IF Len(split_space(substrs[1])) = wordcount THEN <<substrs[1]>> ELSE <<>>)
         \o PossibleIdenticLines(Tail(substrs), wordcount)

\* line 628: is_identical_collocation_q of the tagged line with every tagged
\* sub-phrase in turn; the first exception ends the comprehension
RECURSIVE IdCheck(_, _, _)
IdCheck(tagged_line, possible_identic_lines, dictionary) ==
    IF possible_identic_lines = <<>> THEN Ok(<<>>)
    ELSE LET r == is_identical_collocation_q(
                      tagged_line, assign_tags(TRUE, possible_identic_lines[1], dictionary))
         IN IF r.tag = "raise" THEN r
            ELSE LET rest == IdCheck(tagged_line, Tail(possible_identic_lines), dictionary)
                 IN IF rest.tag = "raise" THEN rest ELSE Ok(<<r.val>> \o rest.val)

\* lines 623-635: the body of the loop for one gram, <<gram>> when the gram
\* is appended and <<>> when it is not; an exception skips the gram
LongerTermOf(tagged_line, wordcount, gram, dictionary) ==
    LET possible_identic_lines ==
            PossibleIdenticLines(make_substrs(gram.collocation).val, wordcount)
        id_check == IdCheck(tagged_line, possible_identic_lines, dictionary)
    IN IF id_check.tag = "raise" THEN <<>>
       ELSE IF \E i \in 1..Len(id_check.val) : id_check.val[i] THEN <<gram>>
       ELSE <<>>

RECURSIVE LongerTermsOf(_, _, _, _)
LongerTermsOf(tagged_line, wordcount, longer_grams, dictionary) ==
    IF longer_grams = <<>> THEN <<>>
    ELSE LongerTermOf(tagged_line, wordcount, longer_grams[1], dictionary)
         \o LongerTermsOf(tagged_line, wordcount, Tail(longer_grams), dictionary)

\* get_longer_terms
get_longer_terms(line, longer_grams, dictionary) ==
    Ok(LongerTermsOf(assign_tags(FALSE, line, dictionary), line.wordcount, longer_grams,
                     dictionary))

(***************************************************************************)
(* Word membership                                                         *)
(***************************************************************************)
\* lines 38-41: the loop over the words from position i on, flag being the
\* value it has before the word at i is read
RECURSIVE WordLoop(_, _, _, _)
WordLoop(collocation, check_word, i, flag) ==
    IF i > Len(collocation) THEN flag
    ELSE LET flag_i == flag \/ (check_word = collocation[i].word)
         IN IF flag_i THEN flag_i
            ELSE WordLoop(collocation, check_word, i + 1, flag_i)

\* is_word_in_tuple_list; line 37 sets the flag to True before the loop
is_word_in_tuple_list(collocation, check_word) ==
    IF Len(collocation) = 0
       \/ \E i \in 1..Len(collocation) : collocation[i].cls # "TaggedWord"
    THEN Raise("TypeError:collocation")
    ELSE IF check_word = <<>> THEN Raise("TypeError:check_word")
    ELSE Ok(WordLoop(collocation, check_word, 1, TRUE))

(***************************************************************************)
(* Inputs                                                                  *)
(***************************************************************************)
tw_boj == TaggedWord(w_boj, "noun", "nominative", w_boj)
tw_boya == TaggedWord(w_boya, "noun", "genitive", w_boj)
tw_ezha == TaggedWord(w_ezha, "noun", "genitive", w_yozh)
tw_ezha_acc == TaggedWord(w_ezha, "noun", "accusative", w_yozh)
tw_zloj == TaggedWord(w_zloj, "adjective", "nominative", w_zloj)
tw_zloj_gen == TaggedWord(w_zloj, "adjective", "genitive", w_zloj)
tw_bitq == TaggedWord(w_bitq, "verb", "none", w_bitq)
tw_tam == TaggedWord(w_tam, "adverb", "none", w_tam)
sep_hyphen == Separator("-")

TaggedWords == {tw_boj, tw_boya, tw_ezha, tw_ezha_acc, tw_zloj, tw_zloj_gen, tw_bitq, tw_tam}

\* raw strings offered to is_identical_word
RawWords ==
    {<<>>, w_boj, w_boya, w_Boj, w_yozh, w_ezh, w_ezha, w_zloj,
     w_boj \o <<" ">> \o w_boya, <<" ">> \o w_boj, <<"1">>, w_boj \o <<"1">>,
     <<"b", "-", "o">>, <<"-", "b">>}

\* the sequences over S of length 0..n
SeqsUpTo(S, n) == UNION {[1..k -> S] : k \in 0..n}

MaxMainLen == 3

\* the tagged words and the raw words phrases are built from
CollTagged == {tw_boj, tw_boya, tw_ezha, tw_zloj, tw_bitq, tw_tam}
CollWords == {w_boj, w_boya, w_ezha, w_zloj, <<"b", "-", "o">>, <<"1">>}

MaxCollLen == 2

\* the words of phrases of unequal length: a noun, a verb, an adverb and a
\* token that is not a word
CountWords == {w_boj, w_bitq, w_tam, <<"1">>}
CountTagged == {tw_boj, tw_boya, tw_bitq, tw_tam}

MaxCountLen == 3

\* the query phrases and the candidate phrases of the dedup engine
DedupQueries == {<<tw_boj, tw_ezha>>, <<tw_boya, tw_ezha>>, <<tw_zloj, tw_boj>>, <<>>}
DedupCandidates ==
    {<<tw_boj, tw_ezha>>, <<tw_boya, tw_ezha>>, <<tw_boj>>, <<tw_bitq, tw_tam>>, <<>>}

MaxCandidates == 3

\* the index given to the first candidate of an indexed list
IndexOffsets == {0, 7}

\* the query strings and the candidate strings of in_collocation_list_var
ListQueries ==
    {w_boj \o <<" ">> \o w_ezha, w_boya \o <<" ">> \o w_ezha, w_boj, <<>>,
     w_boj \o <<" ">> \o <<"1">>, w_boj \o <<" ", "b", "-", "o">>}
ListCandidates ==
    {w_boya \o <<" ">> \o w_ezha, w_boj \o <<" ">> \o w_ezha,
     w_Boj \o <<" ">> \o w_ezha, w_zloj \o <<" ">> \o w_boj, w_boj,
     w_boj \o <<" ">> \o <<"1">>, w_boya \o <<" ", "b", "-", "o">>}

MaxListLen == 2

\* the pseudo-normal forms, head words and candidate texts of the resolver
w_yozha == <<"yo", "zh", "a">>
s_boj_ezha == w_boj \o <<" ">> \o w_ezha
s_boya_ezha == w_boya \o <<" ">> \o w_ezha
s_boj_yozha == w_boj \o <<" ">> \o w_yozha
\* w_zlo and w_zloba are at the distances 1/4 and 2/5 from w_zloj, which
\* differ by exactly 0.15
w_zlo == <<"z", "l", "o">>
w_zloba == <<"z", "l", "o", "b", "a">>
NormalForms == {s_boj_ezha, s_boj_yozha, w_ezh, w_zloj}
MainWords == {w_boj, w_ezha, w_yozh, w_ezh, w_zloba}
CandidateTexts == {s_boj_ezha, s_boj_yozha, w_ezh, w_ezha, w_zlo, w_zloba}

MaxVariants == 2

\* the strings of 0..n words of S joined by single spaces
Phrases(S, n) == {join(ws) : ws \in SeqsUpTo(S, n)}

\* the phrases make_substrs is given: up to MaxPhraseWords words joined by
\* single spaces, and phrases with other runs of whitespace
SubstrWords == {w_boj, w_boya, w_ezha}

MaxPhraseWords == 4

SubstrPhrases ==
    Phrases(SubstrWords, MaxPhraseWords)
        \cup {<<" ", " ">>,
              <<" ">> \o w_boj \o <<" ", " ">> \o w_boya \o <<" ">> \o w_ezha \o <<" ">>}

\* the short candidates, the longer candidates and the dictionaries of
\* get_longer_terms; a candidate's wordcount is the count of its words
Candidate(words) == Collocation(join(words), Len(words))
Lines == {Candidate(<<w_boj, w_ezha>>), Candidate(<<w_zloj, w_boj>>), Candidate(<<w_boj>>)}
LongerGrams ==
    {Candidate(<<w_zloj, w_boya, w_ezha>>),
     Candidate(<<w_boya, w_ezha, w_zloj>>),
     Candidate(<<w_bitq, w_tam, w_boya, w_ezha>>),
     Candidate(<<w_yozh, w_ezh, w_boya, w_ezha>>),
     Candidate(<<w_zloj, w_boj, w_ezha>>),
     Candidate(<<w_boya, w_ezha>>),
     Candidate(<<w_ezha, w_boj, w_zloj>>)}
Dictionaries ==
    {<<tw_boj, tw_boya, tw_ezha, tw_zloj, tw_bitq, tw_tam>>,
     <<tw_ezha, tw_boya, tw_boj, tw_zloj>>}

MaxGrams == 2

\* the words looked for by is_word_in_tuple_list
CheckWords == {w_boj, w_boya, w_ezha, w_tam, w_Boj, <<>>}

MaxTupleLen == 2

(***************************************************************************)
(* Specifications: Init draws the call, the action applies the function    *)
(***************************************************************************)
Call(f, a) ==
    /\ pc = "call"
    /\ fn = f
    /\ args = a
    /\ ret = NoRet
    /\ heap_list = <<>>
    /\ heap_collocations = <<>>

Return(r) ==
    /\ pc' = "done"
    /\ ret' = r
    /\ UNCHANGED <<fn, args, heap_list, heap_collocations>>

WordArgs(is_strs, is_tagged_words, a, b) ==
    [is_strs |-> is_strs, is_tagged_words |-> is_tagged_words, word1 |-> a, word2 |-> b]

\* two raw strings, two TaggedWords, or a string with a TaggedWord
InitWord ==
    \/ \E a \in RawWords, b \in RawWords :
          Call("is_identical_word", WordArgs(TRUE, FALSE, a, b))
    \/ \E a \in TaggedWords, b \in TaggedWords :
          Call("is_identical_word", WordArgs(FALSE, TRUE, a, b))
    \/ Call("is_identical_word", WordArgs(FALSE, FALSE, w_boj, tw_boj))

IsIdenticalWord ==
    /\ pc = "call"
    /\ fn = "is_identical_word"
    /\ Return(is_identical_word(args.is_strs, args.is_tagged_words, args.word1, args.word2))

NextWord == IsIdenticalWord

SpecWord == InitWord /\ [][NextWord]_vars

InitMain ==
    \E c \in SeqsUpTo(TaggedWords \cup {sep_hyphen}, MaxMainLen) :
        Call("get_main_word", [collocation |-> c])

GetMainWord ==
    /\ pc = "call"
    /\ fn = "get_main_word"
    /\ Return(get_main_word(args.collocation))

NextMain == GetMainWord

SpecMain == InitMain /\ [][NextMain]_vars

InitColl ==
    \/ \E a \in Phrases(CollWords, MaxCollLen), b \in Phrases(CollWords, MaxCollLen) :
          Call("is_identical_collocation", [collocation1 |-> a, collocation2 |-> b])
    \/ \E a \in SeqsUpTo(CollTagged, MaxCollLen), b \in SeqsUpTo(CollTagged, MaxCollLen) :
          Call("is_identical_collocation_q", [collocation1 |-> a, collocation2 |-> b])

IsIdenticalCollocation ==
    /\ pc = "call"
    /\ fn = "is_identical_collocation"
    /\ Return(is_identical_collocation(args.collocation1, args.collocation2))

IsIdenticalCollocationQ ==
    /\ pc = "call"
    /\ fn = "is_identical_collocation_q"
    /\ Return(is_identical_collocation_q(args.collocation1, args.collocation2))

NextColl == IsIdenticalCollocation \/ IsIdenticalCollocationQ

SpecColl == InitColl /\ [][NextColl]_vars

\* the two comparators on phrases of up to MaxCountLen tokens
InitCount ==
    \/ \E a \in Phrases(CountWords, MaxCountLen), b \in Phrases(CountWords, MaxCountLen) :
          Call("is_identical_collocation", [collocation1 |-> a, collocation2 |-> b])
    \/ \E a \in SeqsUpTo(CountTagged, MaxCountLen), b \in SeqsUpTo(CountTagged, MaxCountLen) :
          Call("is_identical_collocation_q", [collocation1 |-> a, collocation2 |-> b])

NextCount == IsIdenticalCollocation \/ IsIdenticalCollocationQ

SpecCount == InitCount /\ [][NextCount]_vars

InitDedup ==
    \/ \E q \in DedupQueries, l \in SeqsUpTo(DedupCandidates, MaxCandidates),
          off \in IndexOffsets :
          Call("binary_identity_check",
               [collocation |-> q,
                collocation_list |-> [i \in 1..Len(l) |-> <<i - 1 + off, l[i]>>]])
    \/ \E q \in DedupQueries, l \in SeqsUpTo(DedupCandidates, MaxCandidates) :
          Call("count_includes", [collocation |-> q, collocation_list |-> l])

BinaryIdentityCheck ==
    /\ pc = "call"
    /\ fn = "binary_identity_check"
    /\ Return(binary_identity_check(args.collocation, args.collocation_list))

CountIncludes ==
    /\ pc = "call"
    /\ fn = "count_includes"
    /\ Return(count_includes(args.collocation, args.collocation_list))

NextDedup == BinaryIdentityCheck \/ CountIncludes

SpecDedup == InitDedup /\ [][NextDedup]_vars

\* the candidate list is the caller's list, which the call sorts in place
InitList ==
    \E q \in ListQueries, l \in SeqsUpTo(ListCandidates, MaxListLen) :
        /\ pc = "call"
        /\ fn = "in_collocation_list_var"
        /\ args = [collocation |-> q, collocation_list |-> l]
        /\ ret = NoRet
        /\ heap_list = l
        /\ heap_collocations = <<>>

InCollocationListVar ==
    /\ pc = "call"
    /\ fn = "in_collocation_list_var"
    /\ LET r == in_collocation_list_var(args.collocation, heap_list)
       IN /\ ret' = r.ret
          /\ heap_list' = r.list
    /\ pc' = "done"
    /\ UNCHANGED <<fn, args, heap_collocations>>

NextList == InCollocationListVar

SpecList == InitList /\ [][NextList]_vars

\* the candidates are the caller's Collocation objects, which the call rewrites
InitNormal ==
    \E p \in NormalForms, m \in MainWords, c \in SeqsUpTo(CandidateTexts, MaxVariants) :
        /\ pc = "call"
        /\ fn = "get_collocation_normal_form"
        /\ args = [pnormal_form |-> p, main_word |-> m,
                   collocations |-> [i \in 1..Len(c) |-> [collocation |-> c[i]]]]
        /\ ret = NoRet
        /\ heap_list = <<>>
        /\ heap_collocations = [i \in 1..Len(c) |-> [collocation |-> c[i]]]

GetCollocationNormalForm ==
    /\ pc = "call"
    /\ fn = "get_collocation_normal_form"
    /\ \E at_threshold \in BOOLEAN :
          LET r == get_collocation_normal_form(args.pnormal_form, heap_collocations,
                                               args.main_word, at_threshold)
          IN /\ ret' = r.ret
             /\ heap_collocations' = r.collocations
    /\ pc' = "done"
    /\ UNCHANGED <<fn, args, heap_list>>

NextNormal == GetCollocationNormalForm

SpecNormal == InitNormal /\ [][NextNormal]_vars

InitSubstrs == \E c \in SubstrPhrases : Call("make_substrs", [collocation |-> c])

MakeSubstrs ==
    /\ pc = "call"
    /\ fn = "make_substrs"
    /\ Return(make_substrs(args.collocation))

NextSubstrs == MakeSubstrs

SpecSubstrs == InitSubstrs /\ [][NextSubstrs]_vars

InitLonger ==
    \E l \in Lines, g \in SeqsUpTo(LongerGrams, MaxGrams), d \in Dictionaries :
        Call("get_longer_terms", [line |-> l, longer_grams |-> g, dictionary |-> d])

GetLongerTerms ==
    /\ pc = "call"
    /\ fn = "get_longer_terms"
    /\ Return(get_longer_terms(args.line, args.longer_grams, args.dictionary))

NextLonger == GetLongerTerms

SpecLonger == InitLonger /\ [][NextLonger]_vars

InitInList ==
    \E c \in SeqsUpTo(TaggedWords \cup {sep_hyphen}, MaxTupleLen), w \in CheckWords :
        Call("is_word_in_tuple_list", [collocation |-> c, check_word |-> w])

IsWordInTupleList ==
    /\ pc = "call"
    /\ fn = "is_word_in_tuple_list"
    /\ Return(is_word_in_tuple_list(args.collocation, args.check_word))

NextInList == IsWordInTupleList

SpecInList == InitInList /\ [][NextInList]_vars

(***************************************************************************)
(* Every operation together                                                *)
(***************************************************************************)
Init ==
    \/ InitWord
    \/ InitMain
    \/ InitColl
    \/ InitCount
    \/ InitDedup
    \/ InitList
    \/ InitNormal
    \/ InitSubstrs
    \/ InitLonger
    \/ InitInList

Next ==
    \/ IsIdenticalWord
    \/ GetMainWord
    \/ IsIdenticalCollocation
    \/ IsIdenticalCollocationQ
    \/ BinaryIdentityCheck
    \/ CountIncludes
    \/ InCollocationListVar
    \/ GetCollocationNormalForm
    \/ MakeSubstrs
    \/ GetLongerTerms
    \/ IsWordInTupleList

Spec == Init /\ [][Next]_vars

(***************************************************************************)
(* Claims about is_identical_word                                          *)
(***************************************************************************)
WordDone == pc = "done" /\ fn = "is_identical_word"

\* C5 as stated: on two raw strings, a space in either argument always gives
\* the "phrases" value error, whatever the other argument is.
C5_SpaceAlwaysRaises ==
    (WordDone /\ args.is_strs
        /\ (count(args.word1, " ") >= 1 \/ count(args.word2, " ") >= 1))
    => ret = Raise("ValueError:phrases")

\* C5 amended: on two raw strings of which neither is empty, a space in either
\* argument gives the "phrases" value error, also when the other argument is
\* not alphabetic; when one argument is the empty string the result is False.
C5_SpaceRaisesUnlessEmpty ==
    (WordDone /\ args.is_strs
        /\ (count(args.word1, " ") >= 1 \/ count(args.word2, " ") >= 1))
    => ret = IF args.word1 = <<>> \/ args.word2 = <<>>
             THEN Ok(FALSE)
             ELSE Raise("ValueError:phrases")

\* a non-alphabetic word compared with a phrase has raised "phrases"
C5_Witness ==
    /\ WordDone /\ args.is_strs
    /\ args.word1 = <<"1">>
    /\ count(args.word2, " ") >= 1
    /\ ret = Raise("ValueError:phrases")

\* a valid single alphabetic word
ValidWord(w) == is_correct_word(w) /\ count(w, " ") = 0

\* C6: on valid single words, and on TaggedWord values, is_identical_word is
\* reflexive (w, w gives True) and symmetric (a, b gives what b, a gives).
C6_ReflexiveSymmetric ==
    (WordDone
        /\ \/ args.is_strs /\ ValidWord(args.word1) /\ ValidWord(args.word2)
           \/ args.is_tagged_words)
    => /\ args.word1 = args.word2 => ret = Ok(TRUE)
       /\ ret = is_identical_word(args.is_strs, args.is_tagged_words,
                                  args.word2, args.word1)

\* two valid words that differ also in lower case have been found identical
C6_Witness ==
    /\ WordDone
    /\ args.is_strs /\ ValidWord(args.word1) /\ ValidWord(args.word2)
    /\ lower(args.word1) # lower(args.word2)
    /\ ret = Ok(TRUE)

(***************************************************************************)
(* Claims about get_main_word                                              *)
(***************************************************************************)
MainDone == pc = "done" /\ fn = "get_main_word"

\* a non-empty list of TaggedWord
TaggedPhrase(c) == Len(c) > 0 /\ \A i \in 1..Len(c) : c[i].cls = "TaggedWord"

HasPos(c, p) == \E i \in 1..Len(c) : c[i].pos = p

NounCount(c) == Cardinality({i \in 1..Len(c) : c[i].pos = "noun"})

\* C7: a phrase of TaggedWord with a verb and an adverb makes get_main_word
\* raise the value error, whatever else it holds and in whatever order.
C7_VerbAdverbRaises ==
    (MainDone /\ TaggedPhrase(args.collocation)
        /\ HasPos(args.collocation, "verb") /\ HasPos(args.collocation, "adverb"))
    => ret = Raise("ValueError:verb_adverb")

\* a phrase that starts with a noun and holds an adverb before a verb has raised
C7_Witness ==
    /\ MainDone /\ TaggedPhrase(args.collocation)
    /\ Len(args.collocation) = 3
    /\ args.collocation[1].pos = "noun"
    /\ args.collocation[2].pos = "adverb"
    /\ args.collocation[3].pos = "verb"
    /\ ret = Raise("ValueError:verb_adverb")

\* a phrase get_main_word accepts: TaggedWords, not a verb with an adverb
ValidPhrase(c) ==
    TaggedPhrase(c) /\ ~(HasPos(c, "verb") /\ HasPos(c, "adverb"))

\* C8 as stated: a valid phrase without a noun has the empty head, and a
\* non-empty head is the surface form of a noun of the phrase.
C8_HeadIsNoun ==
    (MainDone /\ ValidPhrase(args.collocation))
    => /\ ret.tag = "ok"
       /\ NounCount(args.collocation) = 0 => ret.val = <<>>
       /\ ret.val # <<>> =>
             \E i \in 1..Len(args.collocation) :
                 /\ args.collocation[i].pos = "noun"
                 /\ args.collocation[i].word = ret.val

\* the first index of c whose word is in the nominative or accusative, 0 when
\* there is none; the first index of c whose word is a noun
FirstNomAcc(c) ==
    IF \E i \in 1..Len(c) : c[i].case \in {"nominative", "accusative"}
    THEN CHOOSE i \in 1..Len(c) :
            /\ c[i].case \in {"nominative", "accusative"}
            /\ \A k \in 1..(i - 1) : c[k].case \notin {"nominative", "accusative"}
    ELSE 0

FirstNoun(c) ==
    CHOOSE i \in 1..Len(c) :
        c[i].pos = "noun" /\ \A k \in 1..(i - 1) : c[k].pos # "noun"

\* C9: with two or more nouns the head is the first word in the nominative or
\* accusative, or the first noun when no word has such a case; with exactly
\* one noun among several words the head is that noun.
C9_HeadChoice ==
    (MainDone /\ ValidPhrase(args.collocation))
    => /\ NounCount(args.collocation) >= 2 =>
             ret = Ok(IF FirstNomAcc(args.collocation) > 0
                      THEN args.collocation[FirstNomAcc(args.collocation)].word
                      ELSE args.collocation[FirstNoun(args.collocation)].word)
       /\ (NounCount(args.collocation) = 1 /\ Len(args.collocation) >= 2) =>
             ret = Ok(args.collocation[FirstNoun(args.collocation)].word)

\* two or more nouns, and the head is a word in the accusative that is not
\* the first word of the phrase
C9_Witness ==
    /\ MainDone /\ ValidPhrase(args.collocation)
    /\ NounCount(args.collocation) >= 2
    /\ FirstNomAcc(args.collocation) > 1
    /\ args.collocation[FirstNomAcc(args.collocation)].case = "accusative"
    /\ ret = Ok(args.collocation[FirstNomAcc(args.collocation)].word)
    /\ ret.val # args.collocation[1].word

(***************************************************************************)
(* Claims about the collocation comparators                                *)
(***************************************************************************)
CollDone == pc = "done" /\ fn \in {"is_identical_collocation", "is_identical_collocation_q"}

\* the tokens of a phrase: the words of a string, the elements of a tagged list
Tokens(c) == IF fn = "is_identical_collocation" THEN split(c) ELSE c

\* a and b hold the same tokens, each as often, in a different order
Reordered(a, b) ==
    /\ Len(a) = Len(b)
    /\ a # b
    /\ \A i \in 1..Len(a) :
          Cardinality({k \in 1..Len(a) : a[k] = a[i]})
              = Cardinality({k \in 1..Len(b) : b[k] = a[i]})

\* the lemma the comparator reads for token t
LemmaOf(t) ==
    IF fn = "is_identical_collocation" THEN tag_word(lower(t)).val[1].normalized
    ELSE t.normalized

\* C10 as stated: two phrases of the same words in a different order are
\* never found identical, by either comparator.
C10_ReorderedNeverTrue ==
    (CollDone /\ Reordered(Tokens(args.collocation1), Tokens(args.collocation2)))
    => ret # Ok(TRUE)

\* C10 amended: two phrases of the same words in a different order are found
\* identical only if at every position the two words have the same lemma;
\* when some position holds two words of different lemmas the result is
\* never true.
C10_ReorderedTrueOnlyBySameLemmas ==
    (CollDone /\ Reordered(Tokens(args.collocation1), Tokens(args.collocation2))
        /\ ret = Ok(TRUE))
    => \A i \in 1..Len(Tokens(args.collocation1)) :
          LemmaOf(Tokens(args.collocation1)[i]) = LemmaOf(Tokens(args.collocation2)[i])

\* the fast comparator has found two reordered phrases with identical heads
\* not identical
C10_Witness ==
    /\ pc = "done" /\ fn = "is_identical_collocation_q"
    /\ Reordered(args.collocation1, args.collocation2)
    /\ get_main_word(args.collocation1) = get_main_word(args.collocation2)
    /\ get_main_word(args.collocation1).tag = "ok"
    /\ get_main_word(args.collocation1).val # <<>>
    /\ ret = Ok(FALSE)

\* the phrases of the call pass the validation of the comparator: two or
\* more words each, all of them correct words, for the validating one; one
\* or more tagged words each for the fast one
PassesValidation ==
    IF fn = "is_identical_collocation"
    THEN /\ Len(split(args.collocation1)) >= 2
         /\ Len(split(args.collocation2)) >= 2
         /\ \A i \in 1..Len(split(args.collocation1)) :
               is_correct_word(split(args.collocation1)[i])
         /\ \A i \in 1..Len(split(args.collocation2)) :
               is_correct_word(split(args.collocation2)[i])
    ELSE Len(args.collocation1) >= 1 /\ Len(args.collocation2) >= 1

\* C11: on phrases that pass validation and have different numbers of tokens
\* both comparators return false and never raise, also when tagging or the
\* head word of one of the phrases would raise.
C11_UnequalCountsFalse ==
    (CollDone /\ PassesValidation
        /\ Len(Tokens(args.collocation1)) # Len(Tokens(args.collocation2)))
    => ret = Ok(FALSE)

\* the validating comparator has returned false on two valid phrases of
\* different lengths, the shorter one first, of which one has a verb and an
\* adverb, so that its head word cannot be determined
C11_Witness ==
    /\ pc = "done" /\ fn = "is_identical_collocation"
    /\ PassesValidation
    /\ Len(split(args.collocation1)) < Len(split(args.collocation2))
    /\ get_main_word(tag_collocation(args.collocation1).val).tag = "raise"
    /\ ret = Ok(FALSE)

(***************************************************************************)
(* Claims about the dedup engine                                           *)
(***************************************************************************)
\* a direct left-to-right scan: is_identical_collocation_q of the query with
\* each candidate in turn, one <<index, bool>> pair per candidate
RECURSIVE DirectScan(_, _)
DirectScan(query, indexed) ==
    IF indexed = <<>> THEN Ok(<<>>)
    ELSE LET r == is_identical_collocation_q(query, indexed[1][2])
         IN IF r.tag = "raise" THEN r
            ELSE LET rest == DirectScan(query, Tail(indexed))
                 IN IF rest.tag = "raise" THEN rest
                    ELSE Ok(<< <<indexed[1][1], r.val>> >> \o rest.val)

\* C1 as stated: for any candidate list binary_identity_check gives what the
\* direct left-to-right scan gives: one pair per candidate, in input order,
\* each boolean that of is_identical_collocation_q.
C1_EqualsDirectScan ==
    (pc = "done" /\ fn = "binary_identity_check")
    => ret = DirectScan(args.collocation, args.collocation_list)

\* C2 as stated: in_collocation_list_var returns found with a candidate that
\* is the query or is identical to it, or not found with None; never found
\* with None, never not found with a match.
C2_FoundWithMatch ==
    (pc = "done" /\ fn = "in_collocation_list_var" /\ ret.tag = "ok")
    => IF ret.val.flag
       THEN /\ ret.val.match # None
            /\ \E k \in 1..Len(args.collocation_list) :
                  /\ ret.val.match = Some(args.collocation_list[k])
                  /\ \/ args.collocation_list[k] = args.collocation
                     \/ is_identical_collocation(args.collocation,
                                                 args.collocation_list[k]) = Ok(TRUE)
       ELSE ret.val.match = None

(***************************************************************************)
(* Claims about get_collocation_normal_form                                *)
(***************************************************************************)
NormalDone == pc = "done" /\ fn = "get_collocation_normal_form"

YoToE(s) == replace(s, "yo", "e")

\* C3 as stated: when the head word or the pseudo-normal form holds the
\* letter yo, no candidate text holds it after the call and the index is that
\* of the same call with every yo written as e.
C3_YoWrittenAsE ==
    (NormalDone /\ (Contains(args.main_word, <<"yo">>)
                       \/ Contains(args.pnormal_form, <<"yo">>)))
    => /\ \A i \in 1..Len(heap_collocations) :
             ~Contains(heap_collocations[i].collocation, <<"yo">>)
       /\ \E at_threshold \in BOOLEAN :
             ret = get_collocation_normal_form(
                       YoToE(args.pnormal_form),
                       [i \in 1..Len(args.collocations) |->
                           [collocation |-> YoToE(args.collocations[i].collocation)]],
                       YoToE(args.main_word), at_threshold).ret

\* the pseudo-normal form and the head word the comparisons of the call read
ComparedForm ==
    IF Contains(lower(args.pnormal_form), <<"yo">>) THEN YoToE(args.pnormal_form)
    ELSE args.pnormal_form
ComparedHead ==
    IF Contains(lower(args.pnormal_form), <<"yo">>) THEN YoToE(args.main_word)
    ELSE args.main_word

\* d[i]: the distance of candidate i to the pseudo-normal form
Dist(i) == normalized_damerau_levenshtein_distance(ComparedForm,
                                                   heap_collocations[i].collocation)

\* condition (1) of C4 for candidate i: d[i] - min(d) <= 0.15 as the floats
\* of the call give it, at_threshold being what they give on a difference of
\* exactly 0.15, and the text holds the head word
Qualifies(i, at_threshold) ==
    /\ \A k \in 1..Len(heap_collocations) :
          \/ 100 * (Dist(i)[1] * Dist(k)[2] - Dist(k)[1] * Dist(i)[2])
                < 15 * Dist(i)[2] * Dist(k)[2]
          \/ /\ 100 * (Dist(i)[1] * Dist(k)[2] - Dist(k)[1] * Dist(i)[2])
                   = 15 * Dist(i)[2] * Dist(k)[2]
             /\ at_threshold
    /\ Contains(heap_collocations[i].collocation, ComparedHead)

\* C4: the index returned is that of a candidate within 0.15 of the least
\* distance whose text holds the head word, of least distance among these
\* and of lowest index among those of that distance; -1 when there is none.
C4_BestQualifying ==
    NormalDone
    => \E at_threshold \in BOOLEAN :
          IF \E i \in 1..Len(heap_collocations) : Qualifies(i, at_threshold)
          THEN \E i \in 1..Len(heap_collocations) :
                  /\ ret = Ok(i - 1)
                  /\ Qualifies(i, at_threshold)
                  /\ \A k \in 1..Len(heap_collocations) :
                        Qualifies(k, at_threshold) =>
                           /\ ~FracLess(Dist(k), Dist(i))
                           /\ FracEq(Dist(k), Dist(i)) => i <= k
          ELSE ret = Ok(-1)

\* the second candidate is returned although the first qualifies too, at a
\* greater distance that is within the threshold
C4_Witness ==
    /\ NormalDone
    /\ Len(heap_collocations) >= 2
    /\ ret = Ok(1)
    /\ Qualifies(1, FALSE)
    /\ FracLess(Dist(2), Dist(1))

(***************************************************************************)
(* Claims about longer-term extraction                                     *)
(***************************************************************************)
SubstrsDone == pc = "done" /\ fn = "make_substrs"

\* the number of sub-phrases of n words that are longer than k words and
\* shorter than the phrase
LongerThan(n, k) == Cardinality({kj \in ((k + 1)..(n - 1)) \X (1..n) : kj[2] <= n - kj[1] + 1})

\* C12: for a phrase of n words make_substrs returns (n-2)(n+1)/2 entries
\* when n >= 2 and none when n <= 1, and the sub-phrase of k words that
\* starts at word j, for 2 <= k <= n-1, stands after all the longer ones and
\* after those of its length that start before it; so neither the phrase
\* itself nor a single word is an entry.
C12_SubstrsByLengthThenStart ==
    SubstrsDone =>
        LET words == split(args.collocation)
            n == Len(words)
        IN /\ ret.tag = "ok"
           /\ Len(ret.val) = (IF n >= 2 THEN ((n - 2) * (n + 1)) \div 2 ELSE 0)
           /\ \A k \in 2..(n - 1) : \A j \in 1..(n - k + 1) :
                 ret.val[LongerThan(n, k) + j] = join(SubSeq(words, j, j + k - 1))
           /\ \A p \in 1..Len(ret.val) :
                 /\ Len(split(ret.val[p])) >= 2
                 /\ Len(split(ret.val[p])) < n

\* a phrase of four words has given five sub-phrases, the first of three
\* words and the last of two
C12_Witness ==
    /\ SubstrsDone
    /\ Len(split(args.collocation)) = 4
    /\ ret.tag = "ok"
    /\ Len(ret.val) = 5
    /\ Len(split(ret.val[1])) = 3
    /\ Len(split(ret.val[5])) = 2

LongerDone == pc = "done" /\ fn = "get_longer_terms"

\* sub-phrase sub of a longer candidate is identical to the short candidate
\* under the fast comparator; a failure of the comparison is no match
MatchesLine(sub) ==
    is_identical_collocation_q(assign_tags(FALSE, args.line, args.dictionary),
                               assign_tags(TRUE, sub, args.dictionary)) = Ok(TRUE)

\* a longer candidate has a sub-phrase of the short candidate's word count
\* that is identical to the short candidate
HasMatchingSubstr(gram) ==
    LET subs == PossibleIdenticLines(make_substrs(gram.collocation).val,
                                     args.line.wordcount)
    IN \E i \in 1..Len(subs) : MatchesLine(subs[i])

RECURSIVE MatchingGrams(_)
MatchingGrams(grams) ==
    IF grams = <<>> THEN <<>>
    ELSE (IF HasMatchingSubstr(grams[1]) THEN <<grams[1]>> ELSE <<>>)
         \o MatchingGrams(Tail(grams))

\* C13 as stated: get_longer_terms returns, in input order, exactly the
\* longer candidates with at least one sub-phrase of the short candidate's
\* word count that is identical to it under the fast comparator, a failure
\* on one sub-phrase being no match for that sub-phrase only.
C13_AnyMatchingSubstr ==
    LongerDone => ret = Ok(MatchingGrams(args.longer_grams))

(***************************************************************************)
(* Claims about failures inside the dedup engine                           *)
(***************************************************************************)
DedupDone == pc = "done" /\ fn \in {"binary_identity_check", "count_includes"}

\* the query is identical to the candidate; a comparison that raises is no
\* match
IdenticalOrFailed(query, candidate) ==
    is_identical_collocation_q(query, candidate) = Ok(TRUE)

\* the <<index, candidate>> pairs of count_includes for the candidates from
\* position i on, a comparison that raises being no match
RECURSIVE IncludesFrom(_, _, _)
IncludesFrom(query, lst, i) ==
    IF i > Len(lst) THEN <<>>
    ELSE (IF IdenticalOrFailed(query, lst[i]) THEN << <<i - 1, lst[i]>> >> ELSE <<>>)
         \o IncludesFrom(query, lst, i + 1)

\* C14 as stated: over a non-empty candidate list binary_identity_check and
\* count_includes always return; a candidate whose comparison with the query
\* hits a value error is reported false (omitted by count_includes) and every
\* other candidate has its own result.
C14_BadCandidateIsNoMatch ==
    (DedupDone /\ Len(args.collocation_list) >= 1)
    => /\ ret.tag = "ok"
       /\ fn = "binary_identity_check" =>
             ret.val = [i \in 1..Len(args.collocation_list) |->
                           <<args.collocation_list[i][1],
                             IdenticalOrFailed(args.collocation,
                                               args.collocation_list[i][2])>>]
       /\ fn = "count_includes" =>
             ret.val = IncludesFrom(args.collocation, args.collocation_list, 1)

(***************************************************************************)
(* Claims about the candidate list of in_collocation_list_var              *)
(***************************************************************************)
ListDone == pc = "done" /\ fn = "in_collocation_list_var"

\* the query is literally an element of the list the call was given
LiteralMember == \E k \in 1..Len(args.collocation_list) :
                    args.collocation_list[k] = args.collocation

\* l holds the elements of orig, each as often, in ascending str order
SortedPermutation(l, orig) ==
    /\ Len(l) = Len(orig)
    /\ \A i \in 1..Len(orig) :
          Cardinality({k \in 1..Len(l) : l[k] = orig[i]})
              = Cardinality({k \in 1..Len(orig) : orig[k] = orig[i]})
    /\ \A i \in 1..(Len(l) - 1) : ~StrLess(l[i + 1], l[i])

\* the first candidate of l that is identical to the query, if there is one
FirstIdentical(l) ==
    LET hits == {k \in 1..Len(l) : is_identical_collocation(args.collocation, l[k]) = Ok(TRUE)}
    IN IF hits = {} THEN None ELSE Some(l[MinIdx(hits)])

\* C15 as stated: when in_collocation_list_var returns on a non-empty list,
\* the list is in its original order if the query is literally an element of
\* it; otherwise the list is the sorted permutation of the original and the
\* match returned is the first identical candidate in sorted order.
C15_SortedOnlyWithoutLiteral ==
    (ListDone /\ ret.tag = "ok" /\ Len(args.collocation_list) >= 1)
    => IF LiteralMember
       THEN heap_list = args.collocation_list
       ELSE /\ SortedPermutation(heap_list, args.collocation_list)
            /\ ret.val.match = FirstIdentical(heap_list)

\* C15 amended: whenever in_collocation_list_var returns on a non-empty
\* list, the list is afterwards the sorted permutation of the original,
\* whether the query is literally an element of it or not; when it is not,
\* the match returned is the first identical candidate in sorted order.
C15_SortedOnEveryReturn ==
    (ListDone /\ ret.tag = "ok" /\ Len(args.collocation_list) >= 1)
    => /\ SortedPermutation(heap_list, args.collocation_list)
       /\ ~LiteralMember => ret.val.match = FirstIdentical(heap_list)

\* the query is literally an element of the list and the call has put the
\* list in another order
C15_Witness ==
    /\ ListDone
    /\ ret.tag = "ok"
    /\ LiteralMember
    /\ heap_list # args.collocation_list
    /\ SortedPermutation(heap_list, args.collocation_list)

(***************************************************************************)
(* Claims about the completion of the dedup engine                         *)
(***************************************************************************)
\* C16 as stated: binary_identity_check and count_includes complete on every
\* candidate list, the empty one included, without nesting more calls than
\* the list has candidates (one call for the empty list), so never by
\* running out of stack; on the empty list count_includes returns no pair.
C16_CompletesWithinListLength ==
    DedupDone
    => /\ ret # Raise("RecursionError")
       /\ call_depth(Len(args.collocation_list), 1)
              <= (IF Len(args.collocation_list) = 0 THEN 1
                  ELSE Len(args.collocation_list))
       /\ (fn = "count_includes" /\ args.collocation_list = <<>>) => ret = Ok(<<>>)

(***************************************************************************)
(* Claims about is_word_in_tuple_list                                      *)
(***************************************************************************)
InListDone == pc = "done" /\ fn = "is_word_in_tuple_list"

\* the arguments pass the type checks of lines 31-35
CheckedArgs ==
    /\ Len(args.collocation) >= 1
    /\ \A i \in 1..Len(args.collocation) : args.collocation[i].cls = "TaggedWord"
    /\ args.check_word # <<>>

\* C17 as stated: on a non-empty list of TaggedWord and a non-empty word
\* is_word_in_tuple_list returns true if the surface form of some word of
\* the collocation is the word, and false if no word of the collocation has
\* the word as its surface form or shares its lemma.
C17_TrueIffWordPresent ==
    (InListDone /\ CheckedArgs)
    => /\ (\E i \in 1..Len(args.collocation) :
              args.collocation[i].word = args.check_word) => ret = Ok(TRUE)
       /\ (\A i \in 1..Len(args.collocation) :
              /\ args.collocation[i].word # args.check_word
              /\ args.collocation[i].normalized # MorphParse(args.check_word).normal_form)
          => ret = Ok(FALSE)

====
